---- MODULE Spec2Model ----
(***************************************************************************)
(* KaikasWeb3Provider (src/src/index.ts): the request dispatch and         *)
(* method-translation engine of the Kaikas web3 provider.                  *)
(*                                                                         *)
(* The provider is single-threaded JavaScript.  A step of the model is one *)
(* run-to-completion piece of the program: the synchronous part of a       *)
(* public call (which runs every promise executor and the synchronous      *)
(* prefix of every async function it reaches), the arrival of one          *)
(* collaborator's answer together with the promise reactions that answer   *)
(* settles, or one reaction of the caller-facing promise chain.            *)
(***************************************************************************)
EXTENDS Integers, Sequences, FiniteSets, TLC

\* Largest batch handed to send / sendAsync.
MaxBatch == 2
\* Largest number of wallet enable() invocations in one session.
MaxEnable == 2

(***************************************************************************)
(* JavaScript values.  Every value is a record of one shape so that any    *)
(* two values can be compared: t is the type tag, s the characters of a    *)
(* string or the elements of an array, n the value of a number.            *)
(***************************************************************************)
JsUndefined == [t |-> "undefined", s |-> <<>>, n |-> 0]
JsNull == [t |-> "null", s |-> <<>>, n |-> 0]
JsNaN == [t |-> "NaN", s |-> <<>>, n |-> 0]
JsNumber(k) == [t |-> "number", s |-> <<>>, n |-> k]
JsString(chars) == [t |-> "string", s |-> chars, n |-> 0]
JsArray(elems) == [t |-> "array", s |-> elems, n |-> 0]
JsBoolean(b) == [t |-> "boolean", s |-> IF b THEN <<"true">> ELSE <<"false">>, n |-> 0]
JsObject(tag) == [t |-> "object", s |-> <<tag>>, n |-> 0]

\* JavaScript truthiness of a value (ToBoolean).
Truthy(v) ==
  CASE v.t \in {"undefined", "null", "NaN"} -> FALSE
    [] v.t = "number" -> v.n # 0
    [] v.t = "string" -> v.s # <<>>
    [] v.t = "boolean" -> v.s = <<"true">>
    [] OTHER -> TRUE

Digits == {"0", "1", "2", "3", "4", "5", "6", "7", "8", "9"}

DigitValue(c) ==
  CASE c = "0" -> 0 [] c = "1" -> 1 [] c = "2" -> 2 [] c = "3" -> 3
    [] c = "4" -> 4 [] c = "5" -> 5 [] c = "6" -> 6 [] c = "7" -> 7
    [] c = "8" -> 8 [] c = "9" -> 9

\* The number read from the leading decimal digits of chars, acc so far.
RECURSIVE ParseDigits(_, _)
ParseDigits(chars, acc) ==
  IF chars = <<>> \/ Head(chars) \notin Digits
    THEN acc
    ELSE ParseDigits(Tail(chars), 10 * acc + DigitValue(Head(chars)))

\* parseInt(v, 10): the leading decimal digits of the string form of v, NaN
\* when there is none (undefined reads as the text "undefined").
ParseInt10(v) ==
  IF v.t = "string" /\ v.s # <<>> /\ Head(v.s) \in Digits
    THEN JsNumber(ParseDigits(v.s, 0))
    ELSE JsNaN

(***************************************************************************)
(* The wallet (kaikasProvider): its network id and its account list.       *)
(***************************************************************************)
Baobab == JsString(<<"1", "0", "0", "1">>)
Cypress == JsString(<<"8", "2", "1", "7">>)

\* Values of kaikasProvider.networkVersion: not yet set, or a network id.
NetworkIds == {JsUndefined, Baobab, Cypress}

\* Address lists the wallet's enable() may resolve with.
AccountLists == {<<>>, <<"0xA", "0xB">>, <<"0xB">>}

(***************************************************************************)
(* Errors.  kind is the error's class, hasMsg whether its message property *)
(* is a string, msg that message: character by character for a            *)
(* collaborator's error, as whole phrases for the provider's own errors.   *)
(***************************************************************************)
Err(kind, hasMsg, msg) == [kind |-> kind, hasMsg |-> hasMsg, msg |-> msg]

\* No error: the null passed as a callback's error argument.
NoErr == Err("none", FALSE, <<>>)

\* Failures a collaborator may answer with: Error objects whose message holds
\* "denied" or "rejected" in some letter case, one whose message holds neither,
\* an object without a message, and the rejection value undefined.
DeniedErr == Err("Error", TRUE, <<"U", "s", "e", "r", " ", "D", "e", "N", "I", "E", "D">>)
RejectedErr == Err("Error", TRUE, <<"R", "E", "J", "E", "C", "T", "E", "D", "!">>)
OtherErr == Err("Error", TRUE, <<"d", "e", "n", "y">>)
NoMsgErr == Err("object", FALSE, <<>>)
NullishErr == Err("undefined", FALSE, <<>>)

CollabErrors == {DeniedErr, RejectedErr, OtherErr, NoMsgErr, NullishErr}

\* The TypeError JavaScript raises on reading a property of undefined or null.
TypeErr == Err("TypeError", TRUE, <<"Cannot read properties of undefined">>)

\* What a throwing callback throws.
CallbackErr == Err("CallbackThrew", TRUE, <<"callback threw">>)

ToLower(c) ==
  CASE c = "D" -> "d" [] c = "E" -> "e" [] c = "N" -> "n" [] c = "I" -> "i"
    [] c = "R" -> "r" [] c = "J" -> "j" [] c = "C" -> "c" [] c = "T" -> "t"
    [] c = "U" -> "u" [] OTHER -> c

LowerCase(chars) == [i \in 1..Len(chars) |-> ToLower(chars[i])]

\* Whether word occurs in chars as a substring.
Contains(chars, word) ==
  \E i \in 1..Len(chars) :
    /\ i + Len(word) - 1 <= Len(chars)
    /\ SubSeq(chars, i, i + Len(word) - 1) = word

\* err.message.match(/(denied|rejected)/i)
MatchesDeniedOrRejected(chars) ==
  \/ Contains(LowerCase(chars), <<"d", "e", "n", "i", "e", "d">>)
  \/ Contains(LowerCase(chars), <<"r", "e", "j", "e", "c", "t", "e", "d">>)

\* ethErrors.provider.userRejectedRequest('User denied transaction signature')
UserRejectedErr == Err("userRejectedRequest", TRUE, <<"User denied transaction signature">>)

\* ethErrors.rpc.invalidParams({message})
InvalidParamsErr(message) == Err("invalidParams", TRUE, message)

\* ethErrors.rpc.invalidRequest({message, data})
InvalidRequestErr(message) == Err("invalidRequest", TRUE, message)

\* new Error('callback is required')
CallbackRequiredErr == Err("Error", TRUE, <<"callback is required">>)

\* The error of _sendRequest, which names the method twice.
UnsupportedSyncErr(method) ==
  Err("Error", TRUE,
      <<"Kaikas Wallet does not support calling ", method,
        " synchronously without a callback. Please provide a callback parameter to call ",
        method, " asynchronously.">>)

(***************************************************************************)
(* Requests and responses.                                                 *)
(***************************************************************************)
SynchronousMethods == {"eth_accounts", "net_version", "eth_chainId"}

SubscriptionMethods == {"eth_subscribe", "eth_unsubscribe"}

\* Methods mapped onto the chain client (caver).
CaverMethods ==
  {"personal_sign", "personal_ecRecover", "eth_signTransaction",
   "eth_sendRawTransaction", "eth_sendTransaction", "eth_blockNumber",
   "eth_getBlockByNumber", "eth_getGasPrice", "eth_getTransactionReceipt"}

\* Methods mapped onto the wallet's sendAsync with a callback.
WalletMethods == {"wallet_watchAsset", "eth_call"}

\* A method of no mapped set; it stands for every other method name.
UnmappedMethods == {"klay_getBalance"}

Methods ==
  SynchronousMethods \cup SubscriptionMethods \cup CaverMethods
    \cup WalletMethods \cup UnmappedMethods

\* params.  shape is "none" (no params), "array0" (an empty array), "array" (an
\* array whose first element is the value described by type and options) or
\* "object" (that value itself).  type is the value's type property ("" when
\* it has none); options is "none" (no options property), "noaddr" (options
\* without an address) or "addr" (options with an address).
Params(shape, type, options) == [shape |-> shape, type |-> type, options |-> options]

NoParams == Params("none", "", "none")

EmptyArray == Params("array0", "", "none")

\* The asset descriptions of wallet_watchAsset requests.
AssetTypes == {"", "ERC721", "ERC20"}

AssetOptions == {"none", "noaddr", "addr"}

WatchAssetParams ==
  {NoParams, EmptyArray}
    \cup {Params(sh, ty, op) : sh \in {"array", "object"}, ty \in AssetTypes,
                               op \in AssetOptions}

\* The params of the other methods, which the dispatch never inspects.
OpaqueParams == {Params("array", "", "none")}

Request(id, method, params) == [id |-> id, method |-> method, params |-> params]

\* The id send(method, params) and request(args) give the request they build.
PlaceholderId == 0

\* Ids callers give their requests.
RequestIds == {1, 2}

ParamsOf(method) == IF method = "wallet_watchAsset" THEN WatchAssetParams ELSE OpaqueParams

Requests ==
  UNION {{Request(id, m, p) : id \in RequestIds, p \in ParamsOf(m)} : m \in Methods}

\* The argument of request(args).  kind is what args is: "undefined", "null",
\* "primitive" (a string or a number), "array" or "object".  Of an object,
\* methodType is typeof args.method, method its text when it is a string, and
\* params its params, whose shape is as above or "null" or "primitive".
Args(kind, methodType, method, params) ==
  [kind |-> kind, methodType |-> methodType, method |-> method, params |-> params]

NoArgs == Args("none", "undefined", "", NoParams)

\* The args a request r is asked for with.
ArgsOf(r) == Args("object", "string", r.method, r.params)

\* Arguments request(args) is to refuse: no object, an object without a
\* usable method, and an object whose params is null or a primitive.
OtherArguments ==
  {Args(k, "undefined", "", NoParams) : k \in {"undefined", "null", "primitive", "array"}}
    \cup {Args("object", "undefined", "", NoParams),
          Args("object", "number", "", NoParams),
          Args("object", "string", "", NoParams),
          Args("object", "string", "eth_accounts", Params("null", "", "none")),
          Args("object", "string", "eth_blockNumber", Params("primitive", "", "none"))}

\* What the wallet's sendAsync received: the request and whether a callback
\* came with it.  id -1 stands for a native request built without an id.
Sent(id, method, params, callback) ==
  [id |-> id, method |-> method, params |-> params, callback |-> callback]

NothingSent == Sent(-1, "", NoParams, FALSE)

Response(id, result) == [id |-> id, result |-> result]

NoResponse == Response(-1, JsUndefined)

\* The wallet's native response object: its own id and its result field.
NativeResponse(result) == Response(99, result)

(***************************************************************************)
(* What a collaborator does.  sync is what its invocation does at once:    *)
(* "promise" (returns a promise), "void" (returns nothing, as the wallet's *)
(* sendAsync is declared to) or "throws".  An answer is what it does       *)
(* later: a promise resolved with value or rejected with err, or the       *)
(* wallet's callback called with (err, result), where hasResult tells      *)
(* whether a result object came and value is its result field.             *)
(***************************************************************************)
SyncOutcomes == {"promise", "void", "throws"}

\* What a collaborator throws when it throws at once.
ThrownErr == Err("Error", TRUE, <<"t", "h", "r", "e", "w">>)

\* The null a callback is given as its error when nothing failed.
NullErr == Err("null", FALSE, <<>>)

Answer(how, err, hasResult, value) ==
  [how |-> how, err |-> err, hasResult |-> hasResult, value |-> value]

NoAnswer == Answer("none", NoErr, FALSE, JsUndefined)

NativeValue == JsObject("native")

SubscriptionId == JsString(<<"0xsub">>)

PromiseAnswers(values) ==
  {Answer("resolve", NoErr, TRUE, v) : v \in values}
    \cup {Answer("reject", e, FALSE, JsUndefined) : e \in CollabErrors}

\* handleRequest's promise: resolved with {result}, or rejected.
SubscriptionAnswers == PromiseAnswers({SubscriptionId})

\* A chain-client operation's promise: resolved with a native value, or rejected.
CaverAnswers == PromiseAnswers({NativeValue})

\* The wallet's callback: (null, {result: truthy}), with a string or with a
\* number as the result field; (err, {result: falsy}); (err, undefined); and
\* (null, {result: falsy}).
WalletCallbackAnswers ==
  {Answer("callback", NullErr, TRUE, JsString(<<"0x1">>)),
   Answer("callback", NullErr, TRUE, JsNumber(1)),
   Answer("callback", OtherErr, TRUE, JsUndefined),
   Answer("callback", OtherErr, FALSE, JsUndefined),
   Answer("callback", NullErr, TRUE, JsNull)}

\* The promise of a wallet whose sendAsync returns one: resolved with a native
\* response, or rejected.
WalletPromiseAnswers == PromiseAnswers({NativeValue})

(***************************************************************************)
(* The state of one request in the asynchronous pipeline: the promise of   *)
(* _sendRequestAsync (st, resp, err), the stage that took the request,     *)
(* the collaborator invoked for it (collab, sent), what the promise waits  *)
(* for (wait), whether the collaborator has answered (answered) and the    *)
(* answer it gave (got).                                                   *)
(***************************************************************************)
Member(req, stage, collab, sent, wait, st, resp, err) ==
  [req |-> req, stage |-> stage, collab |-> collab, sent |-> sent, wait |-> wait,
   st |-> st, resp |-> resp, err |-> err, answered |-> (wait \in {"none", "micro"}),
   got |-> NoAnswer]

\* The promise is resolved with resp: nothing is awaited any more.
Fulfilled(m, resp) ==
  [m EXCEPT !.st = "fulfilled", !.resp = resp, !.wait = "none", !.answered = TRUE]

\* The promise is rejected with err.
Rejected(m, err) ==
  [m EXCEPT !.st = "rejected", !.err = err, !.wait = "none", !.answered = TRUE]

\* The collaborator answered and no resolve or reject was called: the
\* promise stays pending for good.
Stuck(m) == [m EXCEPT !.wait = "never", !.answered = TRUE]

VARIABLES
  _addresses,      \* this._addresses: the cached account list
  chainId,         \* this.chainId: read once by the constructor
  networkVersion,  \* kaikasProvider.networkVersion
  walletAccounts,  \* the wallet's current account list
  enablePending,   \* number of enable() calls awaiting kaikasProvider.enable()
  nWalletEnable,   \* number of kaikasProvider.enable() invocations so far
  lastEnable,      \* what the latest step of an enable() call did
  resolvedLists,   \* the non-empty lists enable() has resolved with so far
  lastEmit,        \* the latest event the provider emitted
  listening,       \* whether a listener is registered on the provider
  notification,    \* the latest notification of the subscription manager
  delivered        \* the events the latest emit handed to a listener

envVars == <<_addresses, chainId, networkVersion, walletAccounts, enablePending,
             nWalletEnable, lastEnable, resolvedLists, lastEmit, listening,
             notification, delivered>>

\* getChainId(): the wallet's current network id, as it is.
getChainId == networkVersion

NoEmit == [name |-> "none", payload |-> JsUndefined]

\* emit(name, payload): the listeners registered at this moment are called
\* with the payload, one after the other; with none registered nobody is.
emit(name, payload) ==
  /\ lastEmit' = [name |-> name, payload |-> payload]
  /\ delivered' = IF listening THEN <<[name |-> name, payload |-> payload]>> ELSE <<>>
  /\ UNCHANGED listening

\* A notification of the subscription manager: its method and its params.
Notification(method, params) == [method |-> method, params |-> params]

NoNotification == Notification("", JsUndefined)

\* The notifications of two subscriptions' data.
Notifications ==
  {Notification("eth_subscription", JsObject(d)) : d \in {"head1", "head2"}}

\* The object {type: notification.method, data: notification.params}, written
\* as the list of its property values.
MessageOf(n) == [t |-> "object", s |-> <<n.method>> \o n.params.s, n |-> 0]

NoEnable == [did |-> "none", ret |-> <<>>]

\* _eth_accounts(): a copy of the cached account list.
_eth_accounts == JsArray(_addresses)

\* A chain id answered from the field the constructor filled.
_eth_chainIdCached == chainId

\* _eth_chainId(): getChainId().
_eth_chainId == getChainId

\* _net_version(): parseInt(kaikasProvider.networkVersion, 10).
_net_version == ParseInt10(networkVersion)

\* _handleSynchronousMethods(request): the result, undefined for a method that
\* is none of the three.
_handleSynchronousMethods(request) ==
  CASE request.method = "eth_accounts" -> _eth_accounts
    [] request.method = "net_version" -> _net_version
    [] request.method = "eth_chainId" -> _eth_chainId
    [] OTHER -> JsUndefined

\* A _sendRequest that answers an unhandled method with an undefined result
\* instead of throwing.
_sendRequestNoThrow(request) ==
  [threw |-> FALSE,
   resp |-> Response(request.id, _handleSynchronousMethods(request)),
   err |-> NoErr]

\* _sendRequest(request): the response, or the error thrown when the result of
\* the synchronous handler is undefined.
_sendRequest(request) ==
  LET result == _handleSynchronousMethods(request)
  IN IF result = JsUndefined
       THEN [threw |-> TRUE, resp |-> NoResponse,
             err |-> UnsupportedSyncErr(request.method)]
       ELSE [threw |-> FALSE, resp |-> Response(request.id, result), err |-> NoErr]

\* _wallet_watchAsset(params), up to its call of watchAsset: the error thrown,
\* NoErr when the asset description passes every check.  The description is
\* params[0] for an array and params itself otherwise; reading the type of a
\* description that is undefined raises a TypeError.
_wallet_watchAsset(params) ==
  IF params.shape \in {"none", "array0"} THEN TypeErr
  ELSE IF params.type = "" THEN InvalidParamsErr(<<"Type is required">>)
  ELSE IF params.type # "ERC20"
    THEN InvalidParamsErr(<<"Asset of type '", params.type, "' is not supported">>)
  ELSE IF params.options = "none" THEN InvalidParamsErr(<<"Options are required">>)
  ELSE IF params.options = "noaddr" THEN InvalidParamsErr(<<"Address is required">>)
  ELSE NoErr

\* _handleAsynchronousMethods(request), up to its first suspension: the mapped
\* handler's collaborator is invoked, or the request is handed to the wallet's
\* sendAsync as it is and without a callback.  An error thrown on the way
\* rejects the async function's promise, which reaches _sendRequestAsync's
\* reject in a later microtask (wait "micro").
_handleAsynchronousMethods(request, sync) ==
  LET params == IF request.params.shape = "none" THEN EmptyArray ELSE request.params
      method == request.method
      Throwing(stage, collab, sent, err) ==
        Member(request, stage, collab, sent, "micro", "pending", NoResponse, err)
      Waiting(stage, collab, sent, wait) ==
        Member(request, stage, collab, sent, wait, "pending", NoResponse, NoErr)
  IN CASE method \in CaverMethods ->
            IF sync = "throws"
              THEN Throwing("mapped", "caver", NothingSent, ThrownErr)
              ELSE Waiting("mapped", "caver", NothingSent, "caver")
       [] method = "wallet_watchAsset" ->
            LET err == _wallet_watchAsset(params)
                sent == Sent(-1, "wallet_watchAsset",
                             Params("object", params.type, params.options), TRUE)
            IN IF err # NoErr THEN Throwing("mapped", "none", NothingSent, err)
               ELSE IF sync = "throws" THEN Throwing("mapped", "wallet", sent, ThrownErr)
               ELSE Waiting("mapped", "wallet", sent, "walletCb")
       [] method = "eth_call" ->
            LET sent == Sent(-1, "klay_call", params, TRUE)
            IN IF sync = "throws" THEN Throwing("mapped", "wallet", sent, ThrownErr)
               ELSE Waiting("mapped", "wallet", sent, "walletCb")
       [] OTHER ->
            LET sent == Sent(request.id, request.method, request.params, FALSE)
            IN CASE sync = "throws" -> Throwing("passthrough", "wallet", sent, ThrownErr)
                 [] sync = "promise" -> Waiting("passthrough", "wallet", sent, "walletPromise")
                 [] OTHER -> Waiting("passthrough", "wallet", sent, "walletNoCb")

\* _handleSubscriptionMethods(request): handleRequest is invoked; an error it
\* throws at once is caught by _sendRequestAsync and rejects the promise.
_handleSubscriptionMethods(request, sync) ==
  IF sync = "throws"
    THEN Member(request, "subscription", "subscription", NothingSent, "none",
                "rejected", NoResponse, ThrownErr)
    ELSE Member(request, "subscription", "subscription", NothingSent,
                "subscription", "pending", NoResponse, NoErr)

\* An executor that hands every request on, whatever the synchronous handler
\* made of it.
_sendRequestAsyncHandsOn(request, sync) ==
  IF request.method \in SubscriptionMethods
    THEN _handleSubscriptionMethods(request, sync)
    ELSE _handleAsynchronousMethods(request, sync)

\* _sendRequestAsync(request), the promise's executor: the synchronous handler,
\* then the subscription router, then the asynchronous handlers.
_sendRequestAsync(request, sync) ==
  LET syncResult == _handleSynchronousMethods(request)
  IN IF syncResult # JsUndefined
       THEN Member(request, "sync", "none", NothingSent, "none", "fulfilled",
                   Response(request.id, syncResult), NoErr)
     ELSE IF request.method \in SubscriptionMethods
       THEN _handleSubscriptionMethods(request, sync)
     ELSE _handleAsynchronousMethods(request, sync)

(***************************************************************************)
(* The handlers after their suspension: what the promise of the handler    *)
(* settles to when the collaborator answers with a.                        *)
(***************************************************************************)
Outcome(st, resp, err) == [st |-> st, resp |-> resp, err |-> err]

\* The handler's promise resolves with the response it built.
Returns(result) == Outcome("fulfilled", Response(PlaceholderId, result), NoErr)

\* The handler's promise rejects with err.
Throws(err) == Outcome("rejected", NoResponse, err)

\* Neither resolve nor reject is ever called.
NeverSettles == Outcome("never", NoResponse, NoErr)

\* res.transactionHash of the chain client's native result.
TransactionHash(res) == JsString(<<"0xhash">>)

\* The catch block of _eth_sendTransaction and _eth_signTransaction: reading
\* err.message of an undefined or null err raises a TypeError; a string message
\* that matches is replaced by the user-rejected error; any other err is
\* thrown again as it is.
RethrowTransactionError(err) ==
  IF err.kind \in {"undefined", "null"} THEN TypeErr
  ELSE IF err.hasMsg /\ MatchesDeniedOrRejected(err.msg) THEN UserRejectedErr
  ELSE err

_personal_sign(a) == IF a.how = "resolve" THEN Returns(a.value) ELSE Throws(a.err)

_personal_ecRecover(a) == IF a.how = "resolve" THEN Returns(a.value) ELSE Throws(a.err)

_eth_signTransaction(a) ==
  IF a.how = "resolve" THEN Returns(a.value) ELSE Throws(RethrowTransactionError(a.err))

_eth_sendRawTransaction(a) ==
  IF a.how = "resolve" THEN Returns(TransactionHash(a.value)) ELSE Throws(a.err)

_eth_sendTransaction(a) ==
  IF a.how = "resolve" THEN Returns(TransactionHash(a.value))
                       ELSE Throws(RethrowTransactionError(a.err))

_eth_blockNumber(a) == IF a.how = "resolve" THEN Returns(a.value) ELSE Throws(a.err)

_eth_getBlockByNumber(a) == IF a.how = "resolve" THEN Returns(a.value) ELSE Throws(a.err)

_eth_getGasPrice(a) == IF a.how = "resolve" THEN Returns(a.value) ELSE Throws(a.err)

_eth_getTransactionReceipt(a) ==
  IF a.how = "resolve" THEN Returns(a.value) ELSE Throws(a.err)

\* _eth_call's callback (err, result): reading result.result of a result that
\* is undefined raises a TypeError inside the wallet's call of the callback, so
\* neither resolve nor reject runs; a truthy result.result resolves with the
\* wallet's native response object; anything else rejects with err.
_eth_call(a) ==
  IF ~a.hasResult THEN NeverSettles
  ELSE IF Truthy(a.value) THEN Outcome("fulfilled", NativeResponse(a.value), NoErr)
  ELSE Throws(a.err)

\* A watchAsset that resolves with result.result as the wallet gave it.
watchAssetAsGiven(a) ==
  IF ~a.hasResult THEN NeverSettles
  ELSE IF Truthy(a.value) THEN Returns(a.value)
  ELSE Throws(a.err)

\* watchAsset's callback (err, result), then _wallet_watchAsset's response: a
\* truthy result.result resolves with !!result.result.
watchAsset(a) ==
  IF ~a.hasResult THEN NeverSettles
  ELSE IF Truthy(a.value) THEN Returns(JsBoolean(Truthy(a.value)))
  ELSE Throws(a.err)

\* The wallet's sendAsync(request) as _handleAsynchronousMethods returns it: the
\* promise the wallet returned, if it returned one.
Passthrough(a) ==
  IF a.how = "reject" THEN Throws(a.err)
  ELSE Outcome("fulfilled", NativeResponse(a.value), NoErr)

\* The mapped handler of a method, applied to the collaborator's answer.
MappedHandler(method, a) ==
  CASE method = "personal_sign" -> _personal_sign(a)
    [] method = "personal_ecRecover" -> _personal_ecRecover(a)
    [] method = "eth_signTransaction" -> _eth_signTransaction(a)
    [] method = "eth_sendRawTransaction" -> _eth_sendRawTransaction(a)
    [] method = "eth_sendTransaction" -> _eth_sendTransaction(a)
    [] method = "eth_blockNumber" -> _eth_blockNumber(a)
    [] method = "eth_getBlockByNumber" -> _eth_getBlockByNumber(a)
    [] method = "eth_getGasPrice" -> _eth_getGasPrice(a)
    [] method = "eth_getTransactionReceipt" -> _eth_getTransactionReceipt(a)
    [] method = "eth_call" -> _eth_call(a)
    [] method = "wallet_watchAsset" -> watchAsset(a)

\* A response returned with the id its handler gave it.
WithHandlerId(res, request) == res

\* {...res, id: request.id}
WithRequestId(res, request) == [res EXCEPT !.id = request.id]

\* _sendRequestAsync's reactions to _handleAsynchronousMethods' promise:
\* .then((res) => res && resolve({...res, id: request.id})) and
\* .catch((err) => reject(err)).  A res that is undefined resolves nothing.
AsynchronousSettles(m, out) ==
  CASE out.st = "rejected" -> Rejected(m, out.err)
    [] out.st = "fulfilled" /\ out.resp # NoResponse ->
         Fulfilled(m, WithRequestId(out.resp, m.req))
    [] OTHER -> Stuck(m)

\* Reactions that hand on the manager's answer under the placeholder id.
SubscriptionSettlesUnderPlaceholder(m, a) ==
  IF a.how = "resolve" THEN Fulfilled(m, Response(PlaceholderId, a.value))
                       ELSE Rejected(m, a.err)

\* _sendRequestAsync's reactions to the subscription promise: resolve with
\* {id: request.id, result: res.result}, reject with the error as it is.
SubscriptionSettles(m, a) ==
  IF a.how = "resolve" THEN Fulfilled(m, Response(m.req.id, a.value))
                       ELSE Rejected(m, a.err)

\* The answers the collaborator a request waits for may give.
AnswersFor(m) ==
  CASE m.wait = "subscription" -> SubscriptionAnswers
    [] m.wait = "caver" -> CaverAnswers
    [] m.wait = "walletCb" -> WalletCallbackAnswers
    [] m.wait = "walletPromise" -> WalletPromiseAnswers
    [] m.wait = "walletNoCb" -> {Answer("done", NoErr, FALSE, JsUndefined)}
    [] OTHER -> {}

\* The request's promise once its collaborator has answered with a.  The
\* wallet's sendAsync called without a callback returned undefined, which
\* _sendRequestAsync's reaction resolved nothing with: its answer goes nowhere.
Settle(m, a) ==
  CASE m.wait = "subscription" -> SubscriptionSettles(m, a)
    [] m.wait \in {"caver", "walletCb"} ->
         AsynchronousSettles(m, MappedHandler(m.req.method, a))
    [] m.wait = "walletPromise" -> AsynchronousSettles(m, Passthrough(a))
    [] OTHER -> Stuck(m)

(***************************************************************************)
(* Promise.all over the requests of a batch.                               *)
(***************************************************************************)
NoAll == [st |-> "none", values |-> <<>>, remaining |-> 0, reason |-> NoErr]

\* Promise.all's state before any element has settled; the promise of an empty
\* batch is fulfilled at once.
PromiseAllOf(n) ==
  [st |-> IF n = 0 THEN "fulfilled" ELSE "pending",
   values |-> [i \in 1..n |-> NoResponse], remaining |-> n, reason |-> NoErr]

\* A Promise.all that stores the values in the order of completion.
PromiseAllResolveInCompletionOrder(all, i, resp) ==
  [all EXCEPT !.values = [all.values EXCEPT
                            ![Len(all.values) - all.remaining + 1] = resp],
              !.remaining = all.remaining - 1,
              !.st = IF all.st = "pending" /\ all.remaining = 1
                       THEN "fulfilled" ELSE all.st]

\* Element i fulfilled with resp: the value is stored at index i, and the last
\* one to come fulfils the promise.
PromiseAllResolveElement(all, i, resp) ==
  [all EXCEPT !.values = [all.values EXCEPT ![i] = resp],
              !.remaining = all.remaining - 1,
              !.st = IF all.st = "pending" /\ all.remaining = 1
                       THEN "fulfilled" ELSE all.st]

\* An element rejected with err: the first rejection rejects the promise.
PromiseAllRejectElement(all, err) ==
  IF all.st = "pending" THEN [all EXCEPT !.st = "rejected", !.reason = err] ELSE all

\* Promise.all's reaction to member m, element i.
PromiseAllObserve(all, i, m) ==
  CASE m.st = "fulfilled" -> PromiseAllResolveElement(all, i, m.resp)
    [] m.st = "rejected" -> PromiseAllRejectElement(all, m.err)
    [] OTHER -> all

\* The reactions to the elements from i on that were settled when Promise.all
\* was called, which run in index order.
RECURSIVE PromiseAllObserveFrom(_, _, _)
PromiseAllObserveFrom(all, ms, i) ==
  IF i > Len(ms) THEN all
  ELSE PromiseAllObserveFrom(PromiseAllObserve(all, i, ms[i]), ms, i + 1)

\* _sendMultipleRequestsAsync(requests): Promise.all over the members' promises.
_sendMultipleRequestsAsync(ms) == PromiseAllObserveFrom(PromiseAllOf(Len(ms)), ms, 1)

(***************************************************************************)
(* The dispatch call the model follows, from its entry to its result.      *)
(***************************************************************************)
VARIABLES
  entry,        \* the entry point of the call, "idle" when there is none
  batch,        \* whether the call was given an array of requests
  requests,     \* the canonical requests of the call
  members,      \* per request, its state in the asynchronous pipeline
  all,          \* the Promise.all of a batch
  chain,        \* the state of the .then(...).catch(...) chain of sendAsync
  chainErr,     \* the error the callback in .then threw
  cbLog,        \* the invocations of the caller's callback, in order
  outer,        \* what the call returned, threw or promised to its caller
  invocations,  \* collaborator invocations made by the call
  settleOrder,  \* the requests whose promise has settled, in the order they did
  args          \* the argument request(args) was called with

callVars == <<entry, batch, requests, members, all, chain, chainErr, cbLog, outer,
              invocations, settleOrder, args>>

vars == <<envVars, callVars>>

\* What the caller got back: st is "none", "returned" or "threw" for a
\* synchronous call, "pending", "fulfilled" or "rejected" for a promise.
Outer(st, resps, value, err) == [st |-> st, resps |-> resps, value |-> value, err |-> err]

NoOuter == Outer("none", <<>>, JsUndefined, NoErr)

\* One invocation of the callback: (err, null) or (null, result), where the
\* result is a response (resps of length one) or an array of responses.
Invocation(err, isNull, resps) == [err |-> err, isNull |-> isNull, resps |-> resps]

NoInvocations == [wallet |-> 0, caver |-> 0, subscription |-> 0]

\* The collaborator invocations made for members ms.
InvocationsOf(ms) ==
  [wallet |-> Cardinality({i \in DOMAIN ms : ms[i].collab = "wallet"}),
   caver |-> Cardinality({i \in DOMAIN ms : ms[i].collab = "caver"}),
   subscription |-> Cardinality({i \in DOMAIN ms : ms[i].collab = "subscription"})]

\* The promise the caller-facing reactions are attached to: the request's own
\* for a single request, Promise.all's for a batch.
Inner ==
  IF batch THEN [st |-> all.st, resps |-> all.values, err |-> all.reason]
  ELSE [st |-> members[1].st, resps |-> <<members[1].resp>>, err |-> members[1].err]

IdleCall ==
  /\ entry = "idle"
  /\ batch = FALSE
  /\ requests = <<>>
  /\ members = <<>>
  /\ all = NoAll
  /\ chain = "none"
  /\ chainErr = NoErr
  /\ cbLog = <<>>
  /\ outer = NoOuter
  /\ invocations = NoInvocations
  /\ settleOrder = <<>>
  /\ args = NoArgs

\* The members of ms from index i on whose promise the executor settled.
RECURSIVE SettledFrom(_, _)
SettledFrom(ms, i) ==
  IF i > Len(ms) THEN <<>>
  ELSE IF ms[i].st # "pending" THEN <<i>> \o SettledFrom(ms, i + 1)
  ELSE SettledFrom(ms, i + 1)

\* Whether the call has nothing left to do: no collaborator is still to
\* answer, and no reaction of a settled promise is still to run.
Quiescent ==
  /\ \A i \in DOMAIN members : members[i].wait \in {"none", "never"}
  /\ chain # "catch"
  /\ (chain = "wait" \/ outer.st = "pending") => Inner.st = "pending"

\* send(request) without a callback: _sendRequest(request).
sendRequest(r) ==
  /\ entry = "idle"
  /\ LET out == _sendRequest(r)
     IN outer' = IF out.threw THEN Outer("threw", <<>>, JsUndefined, out.err)
                              ELSE Outer("returned", <<out.resp>>, JsUndefined, NoErr)
  /\ entry' = "send"
  /\ batch' = FALSE
  /\ requests' = <<r>>
  /\ invocations' = NoInvocations
  /\ UNCHANGED <<members, all, chain, chainErr, cbLog, settleOrder, args>>
  /\ UNCHANGED envVars

\* send(requests) without a callback: requests.map(_sendRequest), which the
\* first request that throws ends.
sendRequests(rs) ==
  /\ entry = "idle"
  /\ LET outs == [i \in DOMAIN rs |-> _sendRequest(rs[i])]
         failing == {i \in DOMAIN rs : outs[i].threw}
         first == CHOOSE i \in failing : \A j \in failing : i <= j
     IN outer' = IF failing # {}
                   THEN Outer("threw", <<>>, JsUndefined, outs[first].err)
                   ELSE Outer("returned", [i \in DOMAIN rs |-> outs[i].resp],
                              JsUndefined, NoErr)
  /\ entry' = "send"
  /\ batch' = TRUE
  /\ requests' = rs
  /\ invocations' = NoInvocations
  /\ UNCHANGED <<members, all, chain, chainErr, cbLog, settleOrder, args>>
  /\ UNCHANGED envVars

\* The synchronous part of sendAsync(request, callback), callback a function:
\* every request's executor runs, a batch's promises go to Promise.all, and
\* the callback waits in .then(...).catch(...).
StartWithCallback(name, rs, isBatch, syncs) ==
  /\ entry = "idle"
  /\ entry' = name
  /\ batch' = isBatch
  /\ requests' = rs
  /\ members' = [i \in DOMAIN rs |-> _sendRequestAsync(rs[i], syncs[i])]
  /\ all' = IF isBatch THEN _sendMultipleRequestsAsync(members') ELSE NoAll
  /\ chain' = "wait"
  /\ invocations' = InvocationsOf(members')
  /\ settleOrder' = SettledFrom(members', 1)
  /\ UNCHANGED <<chainErr, cbLog, outer, args>>
  /\ UNCHANGED envVars

\* sendAsync(request, callback) and sendAsync(requests, callback).
sendAsync(rs, isBatch, syncs) == StartWithCallback("sendAsync", rs, isBatch, syncs)

\* sendAsync(request, callback), callback no function: the async function
\* throws before anything else, which rejects the promise it returns.
sendAsyncNoCallback(rs, isBatch) ==
  /\ entry = "idle"
  /\ entry' = "sendAsyncNoCallback"
  /\ batch' = isBatch
  /\ requests' = rs
  /\ outer' = Outer("rejected", <<>>, JsUndefined, CallbackRequiredErr)
  /\ invocations' = NoInvocations
  /\ UNCHANGED <<members, all, chain, chainErr, cbLog, settleOrder, args>>
  /\ UNCHANGED envVars

\* send(request, callback) and send(requests, callback): this._sendAsync.
sendCallback(rs, isBatch, syncs) == StartWithCallback("sendCallback", rs, isBatch, syncs)

\* The params send(method, params) gives its request: an array as it is, no
\* params as an empty array, anything else as the one element of an array.
SendParams(params) ==
  CASE params.shape = "none" -> EmptyArray
    [] params.shape = "object" -> [params EXCEPT !.shape = "array"]
    [] OTHER -> params

\* The params request(args) gives its request: absent params as an empty array.
RequestParams(params) == IF params.shape = "none" THEN EmptyArray ELSE params

\* The synchronous part of the promise-returning entry points.
StartPromise(name, r, sync) ==
  /\ entry = "idle"
  /\ entry' = name
  /\ batch' = FALSE
  /\ requests' = <<r>>
  /\ members' = <<_sendRequestAsync(r, sync)>>
  /\ outer' = Outer("pending", <<>>, JsUndefined, NoErr)
  /\ invocations' = InvocationsOf(members')
  /\ settleOrder' = SettledFrom(members', 1)
  /\ UNCHANGED <<all, chain, chainErr, cbLog>>
  /\ UNCHANGED envVars

\* send(method, params): _sendRequestAsync(request).then((res) => res.result).
sendMethod(method, params, sync) ==
  /\ StartPromise("sendMethod", Request(PlaceholderId, method, SendParams(params)), sync)
  /\ UNCHANGED args

\* request(args) without its check of args.params.
ValidateArgsButParams(a) ==
  IF a.kind # "object"
    THEN InvalidRequestErr(<<"Expected a single, non-array, object argument.">>)
  ELSE IF a.methodType # "string" \/ a.method = ""
    THEN InvalidRequestErr(<<"'args.method' must be a non-empty string.">>)
  ELSE NoErr

\* The checks request(args) makes of its argument, in their order: the
\* invalid-request error of the first that fails, NoErr when none does.
\* !args holds of undefined and null; typeof is 'object' of null, arrays and
\* objects.
ValidateArgs(a) ==
  IF \/ a.kind \in {"undefined", "null"}
     \/ a.kind \notin {"null", "array", "object"}
     \/ a.kind = "array"
    THEN InvalidRequestErr(<<"Expected a single, non-array, object argument.">>)
  ELSE IF a.methodType # "string" \/ a.method = ""
    THEN InvalidRequestErr(<<"'args.method' must be a non-empty string.">>)
  ELSE IF a.params.shape \in {"null", "primitive"}
    THEN InvalidRequestErr(<<"'args.params' must be an object or array if provided.">>)
  ELSE NoErr

\* request(a): the async function throws on an argument that fails a check,
\* which rejects its promise; otherwise it awaits _sendRequestAsync(request).
request(a, sync) ==
  /\ args' = a
  /\ IF ValidateArgs(a) # NoErr
       THEN /\ entry = "idle"
            /\ entry' = "request"
            /\ outer' = Outer("rejected", <<>>, JsUndefined, ValidateArgs(a))
            /\ invocations' = NoInvocations
            /\ UNCHANGED <<batch, requests, members, all, chain, chainErr, cbLog,
                           settleOrder>>
            /\ UNCHANGED envVars
       ELSE StartPromise("request",
                         Request(PlaceholderId, a.method, RequestParams(a.params)), sync)

\* The collaborator invoked for request i answers with a; the reactions of
\* _sendRequestAsync, and Promise.all's for a batch, run.
collaboratorAnswers(i, a) ==
  /\ entry # "idle"
  /\ i \in DOMAIN members
  /\ a \in AnswersFor(members[i])
  /\ members' = [members EXCEPT ![i] = [Settle(members[i], a) EXCEPT !.got = a]]
  /\ all' = IF batch THEN PromiseAllObserve(all, i, members'[i]) ELSE all
  /\ settleOrder' = IF members'[i].st # "pending" THEN Append(settleOrder, i)
                                                  ELSE settleOrder
  /\ UNCHANGED <<entry, batch, requests, chain, chainErr, cbLog, outer, invocations, args>>
  /\ UNCHANGED envVars

\* The rejection of an async handler that threw before suspending reaches the
\* promise of request i.
handlerRejects(i) ==
  /\ entry # "idle"
  /\ i \in DOMAIN members
  /\ members[i].wait = "micro"
  /\ members' = [members EXCEPT ![i] = Rejected(members[i], members[i].err)]
  /\ all' = IF batch THEN PromiseAllObserve(all, i, members'[i]) ELSE all
  /\ settleOrder' = Append(settleOrder, i)
  /\ UNCHANGED <<entry, batch, requests, chain, chainErr, cbLog, outer, invocations, args>>
  /\ UNCHANGED envVars

\* .then((response) => cb(null, response)): the callback is invoked on the
\* result branch; if it throws, the promise .then returned is rejected with
\* what it threw, and .catch is next.
thenCallback(throws) ==
  /\ chain = "wait"
  /\ Inner.st = "fulfilled"
  /\ cbLog' = Append(cbLog, Invocation(NoErr, FALSE, Inner.resps))
  /\ chain' = IF throws THEN "catch" ELSE "done"
  /\ chainErr' = IF throws THEN CallbackErr ELSE chainErr
  /\ UNCHANGED <<entry, batch, requests, members, all, outer, invocations, settleOrder,
                 args>>
  /\ UNCHANGED envVars

\* .catch((err) => cb(err, null)): the callback is invoked on the error branch
\* with the rejection of the inner promise, or with what the callback in .then
\* threw.
catchCallback(throws) ==
  /\ \/ chain = "catch"
     \/ chain = "wait" /\ Inner.st = "rejected"
  /\ cbLog' = Append(cbLog, Invocation(IF chain = "catch" THEN chainErr ELSE Inner.err,
                                       TRUE, <<>>))
  /\ chain' = IF throws THEN "unhandled" ELSE "done"
  /\ UNCHANGED <<entry, batch, requests, members, all, chainErr, outer, invocations,
                 settleOrder, args>>
  /\ UNCHANGED envVars

\* The promise send(method, params) or request(args) returned settles: with
\* res.result, or with the rejection of _sendRequestAsync.
promiseSettles ==
  /\ outer.st = "pending"
  /\ Inner.st \in {"fulfilled", "rejected"}
  /\ outer' = IF Inner.st = "fulfilled"
                THEN Outer("fulfilled", <<>>, Inner.resps[1].result, NoErr)
                ELSE Outer("rejected", <<>>, JsUndefined, Inner.err)
  /\ UNCHANGED <<entry, batch, requests, members, all, chain, chainErr, cbLog, invocations,
                 settleOrder, args>>
  /\ UNCHANGED envVars

\* The caller lets go of the call; the model stops following it.
release ==
  /\ entry # "idle"
  /\ entry' = "idle"
  /\ batch' = FALSE
  /\ requests' = <<>>
  /\ members' = <<>>
  /\ all' = NoAll
  /\ chain' = "none"
  /\ chainErr' = NoErr
  /\ cbLog' = <<>>
  /\ outer' = NoOuter
  /\ invocations' = NoInvocations
  /\ settleOrder' = <<>>
  /\ args' = NoArgs
  /\ UNCHANGED envVars

\* The provider as its constructor leaves it: no cached account, the chain id
\* read from the wallet, no call under way.
InitSession ==
  /\ _addresses = <<>>
  /\ networkVersion \in NetworkIds
  /\ chainId = getChainId
  /\ walletAccounts \in AccountLists
  /\ enablePending = 0
  /\ nWalletEnable = 0
  /\ lastEnable = NoEnable
  /\ resolvedLists = {}
  /\ lastEmit = NoEmit
  /\ listening = FALSE
  /\ notification = NoNotification
  /\ delivered = <<>>
  /\ IdleCall

\* The provider between two enable() calls of a session: as constructed, or
\* with the list the one enable() so far resolved with.
Init ==
  /\ walletAccounts \in AccountLists
  /\ _addresses = walletAccounts
  /\ networkVersion \in NetworkIds
  /\ chainId = getChainId
  /\ enablePending = 0
  /\ nWalletEnable = 1
  /\ lastEnable = [did |-> "resolved", ret |-> _addresses]
  /\ resolvedLists = IF _addresses = <<>> THEN {} ELSE {_addresses}
  /\ lastEmit = NoEmit
  /\ listening = FALSE
  /\ notification = NoNotification
  /\ delivered = <<>>
  /\ IdleCall

\* enable(), up to its await: a cached non-empty list is returned as a copy,
\* otherwise kaikasProvider.enable() is invoked and the call suspends.
enable ==
  /\ IF Len(_addresses) > 0
       THEN /\ lastEnable' = [did |-> "cached", ret |-> _addresses]
            /\ UNCHANGED <<enablePending, nWalletEnable>>
       ELSE /\ nWalletEnable < MaxEnable
            /\ nWalletEnable' = nWalletEnable + 1
            /\ enablePending' = enablePending + 1
            /\ lastEnable' = [did |-> "invoked", ret |-> <<>>]
  /\ UNCHANGED <<_addresses, chainId, networkVersion, walletAccounts,
                 resolvedLists, lastEmit, listening, notification, delivered>>
  /\ UNCHANGED callVars

\* enable(), after its await: kaikasProvider.enable() resolved with res, which
\* is stored as the cached list and returned.
enableResolved ==
  /\ enablePending > 0
  /\ LET res == walletAccounts
     IN /\ _addresses' = res
        /\ lastEnable' = [did |-> "resolved", ret |-> res]
        /\ resolvedLists' = IF Len(res) > 0 THEN resolvedLists \cup {res}
                                           ELSE resolvedLists
  /\ enablePending' = enablePending - 1
  /\ UNCHANGED <<chainId, networkVersion, walletAccounts, nWalletEnable, lastEmit,
                 listening, notification, delivered>>
  /\ UNCHANGED callVars

\* The wallet's accountsChanged event, re-emitted under the same name.
accountsChanged ==
  \E l \in AccountLists :
    /\ l # walletAccounts
    /\ walletAccounts' = l
    /\ emit("accountsChanged", JsArray(l))
    /\ UNCHANGED <<_addresses, chainId, networkVersion, enablePending,
                   nWalletEnable, lastEnable, resolvedLists, notification>>
    /\ UNCHANGED callVars

\* A networkChanged listener that also stores the new id as the chain id.
networkChangedStoresChainId ==
  \E id \in NetworkIds \ {JsUndefined} :
    /\ id # networkVersion
    /\ networkVersion' = id
    /\ chainId' = id
    /\ emit("networkChanged", id)
    /\ UNCHANGED <<_addresses, walletAccounts, enablePending,
                   nWalletEnable, lastEnable, resolvedLists, notification>>
    /\ UNCHANGED callVars

\* The wallet's networkChanged event, re-emitted under the same name.
networkChanged ==
  \E id \in NetworkIds \ {JsUndefined} :
    /\ id # networkVersion
    /\ networkVersion' = id
    /\ emit("networkChanged", id)
    /\ UNCHANGED <<_addresses, chainId, walletAccounts, enablePending,
                   nWalletEnable, lastEnable, resolvedLists, notification>>
    /\ UNCHANGED callVars

\* A notification listener that re-emits the notification's params alone.
notifiedParamsOnly ==
  \E n \in Notifications :
    /\ n # notification
    /\ notification' = n
    /\ emit("message", n.params)
    /\ UNCHANGED <<_addresses, chainId, networkVersion, walletAccounts, enablePending,
                   nWalletEnable, lastEnable, resolvedLists>>
    /\ UNCHANGED callVars

\* The subscription manager emits a notification (each with data of its own),
\* which the constructor's listener re-emits as a 'message' event.
notified ==
  \E n \in Notifications :
    /\ n # notification
    /\ notification' = n
    /\ emit("message", MessageOf(n))
    /\ UNCHANGED <<_addresses, chainId, networkVersion, walletAccounts, enablePending,
                   nWalletEnable, lastEnable, resolvedLists>>
    /\ UNCHANGED callVars

\* The provider's user registers a listener for the provider's events.
addListener ==
  /\ ~listening
  /\ listening' = TRUE
  /\ UNCHANGED <<_addresses, chainId, networkVersion, walletAccounts, enablePending,
                 nWalletEnable, lastEnable, resolvedLists, lastEmit, notification,
                 delivered>>
  /\ UNCHANGED callVars

\* The provider's user removes its listener.
removeListener ==
  /\ listening
  /\ listening' = FALSE
  /\ UNCHANGED <<_addresses, chainId, networkVersion, walletAccounts, enablePending,
                 nWalletEnable, lastEnable, resolvedLists, lastEmit, notification,
                 delivered>>
  /\ UNCHANGED callVars

\* Dispatch of the requests of Rs, singly or in batches of up to MaxBatch.
Dispatch(Rs, Bs) ==
  \/ \E r \in Rs : sendRequest(r)
  \/ \E n \in 0..MaxBatch : \E rs \in [1..n -> Bs] : sendRequests(rs)
  \/ \E r \in Rs, sync \in SyncOutcomes : sendAsync(<<r>>, FALSE, <<sync>>)
  \/ \E n \in 0..MaxBatch : \E rs \in [1..n -> Bs], syncs \in [1..n -> SyncOutcomes] :
       sendAsync(rs, TRUE, syncs)
  \/ \E r \in Rs, sync \in SyncOutcomes : sendCallback(<<r>>, FALSE, <<sync>>)
  \/ \E n \in 0..MaxBatch : \E rs \in [1..n -> Bs], syncs \in [1..n -> SyncOutcomes] :
       sendCallback(rs, TRUE, syncs)
  \/ \E r \in Rs, sync \in SyncOutcomes : sendMethod(r.method, r.params, sync)
  \/ \E a \in {ArgsOf(r) : r \in Rs} \cup OtherArguments, sync \in SyncOutcomes :
       request(a, sync)
  \/ \E r \in Rs : sendAsyncNoCallback(<<r>>, FALSE)
  \/ \E n \in 0..MaxBatch : \E rs \in [1..n -> Bs] : sendAsyncNoCallback(rs, TRUE)

Pipeline ==
  \/ \E i \in 1..MaxBatch : \E a \in UNION {AnswersFor(members[j]) : j \in DOMAIN members} :
       collaboratorAnswers(i, a)
  \/ \E i \in 1..MaxBatch : handlerRejects(i)
  \/ \E throws \in BOOLEAN : thenCallback(throws)
  \/ \E throws \in BOOLEAN : catchCallback(throws)
  \/ promiseSettles
  \/ release

\* The requests of batches: one of each stage of the pipeline.
BatchRequests ==
  {Request(1, "eth_accounts", Params("array", "", "none")),
   Request(2, "eth_chainId", Params("array", "", "none")),
   Request(1, "eth_subscribe", Params("array", "", "none")),
   Request(2, "eth_sendTransaction", Params("array", "", "none")),
   Request(1, "eth_call", Params("array", "", "none")),
   Request(2, "wallet_watchAsset", Params("array", "ERC721", "addr")),
   Request(2, "klay_getBalance", Params("array", "", "none"))}

\* The requests dispatched while enable() calls and wallet events go on.
SessionRequests ==
  {r \in Requests : r.id = 1 /\ r.method \in SynchronousMethods \cup UnmappedMethods}

Next ==
  \/ Dispatch(Requests, BatchRequests)
  \/ Pipeline

\* Dispatch calls on a provider whose cached state stays as it is.
Spec == Init /\ [][Next]_vars

NextSession ==
  \/ enable
  \/ enableResolved
  \/ accountsChanged
  \/ networkChanged
  \/ notified
  \/ Dispatch(SessionRequests, {})
  \/ Pipeline

\* A session: enable() calls, wallet events and dispatch calls in any order.
SpecSession == InitSession /\ [][NextSession]_vars

NextEvents ==
  \/ accountsChanged
  \/ networkChanged
  \/ notified
  \/ addListener
  \/ removeListener
  \/ enable
  \/ enableResolved

\* The events of a session, with a listener that comes and goes.
SpecEvents == InitSession /\ [][NextEvents]_vars

(***************************************************************************)
(* Properties.                                                             *)
(***************************************************************************)
CallbackEntry == entry \in {"sendAsync", "sendCallback"}

PromiseEntry == entry \in {"sendMethod", "request"}

\* The underlying work of the call is over: every collaborator has answered.
WorkSettled == \A i \in DOMAIN members : members[i].answered

\* C1: the callback of sendAsync(request, callback) and send(request, callback)
\* is invoked at most once, and exactly once when the underlying work has
\* settled and the call has nothing left to do, whatever the outcome of the
\* work and whether or not the callback throws.
C1_CallbackExactlyOnce ==
  CallbackEntry =>
    /\ Len(cbLog) <= 1
    /\ (WorkSettled /\ Quiescent) => Len(cbLog) = 1

\* C2: the response sequence of a batch whose members all succeed has one entry
\* per request, the i-th entry being the response to the i-th request,
\* whatever the order the members completed in: as the result given to the
\* callback, and as the array send(requests) returns.
C2_BatchOrder ==
  /\ (CallbackEntry /\ batch) =>
       \A k \in DOMAIN cbLog :
         ~cbLog[k].isNull =>
           /\ Len(cbLog[k].resps) = Len(requests)
           /\ \A i \in DOMAIN requests :
                /\ members[i].st = "fulfilled"
                /\ cbLog[k].resps[i] = members[i].resp
                /\ cbLog[k].resps[i].id = requests[i].id
  /\ (entry = "send" /\ batch /\ outer.st = "returned") =>
       /\ Len(outer.resps) = Len(requests)
       /\ \A i \in DOMAIN requests :
            /\ outer.resps[i].id = requests[i].id
            /\ outer.resps[i].result = _handleSynchronousMethods(requests[i])

\* A batch of two different requests whose second member completed first and
\* whose responses were given to the callback.
C2_Witness ==
  /\ CallbackEntry /\ batch
  /\ Len(requests) = 2
  /\ requests[1] # requests[2]
  /\ settleOrder = <<2, 1>>
  /\ members[1].got # NoAnswer /\ members[2].got # NoAnswer
  /\ Len(cbLog) = 1 /\ ~cbLog[1].isNull

\* C3: every response produced for a request carries the id of that request:
\* the responses send returns, the response each request's promise is
\* fulfilled with, the values Promise.all holds, and the responses given to
\* the callback.
C3_ResponseId ==
  /\ outer.st = "returned" =>
       \A i \in DOMAIN outer.resps : outer.resps[i].id = requests[i].id
  /\ \A i \in DOMAIN members :
       /\ members[i].req = requests[i]
       /\ members[i].st = "fulfilled" => members[i].resp.id = requests[i].id
       /\ (batch /\ all.values[i] # NoResponse) => all.values[i].id = requests[i].id
  /\ \A k \in DOMAIN cbLog :
       \A i \in DOMAIN cbLog[k].resps : cbLog[k].resps[i].id = requests[i].id

\* The responses of eth_call, built from the wallet's native response object,
\* and of a handler that builds its response with the placeholder id, given to
\* the callback of a batch.
C3_Witness ==
  /\ CallbackEntry /\ batch
  /\ Len(cbLog) = 1 /\ ~cbLog[1].isNull
  /\ \E i, j \in DOMAIN members :
       /\ requests[i].method = "eth_call"
       /\ requests[j].method = "eth_sendTransaction"
       /\ requests[i].id # requests[j].id

\* The requests C4 is about: a single request whose method is of no mapped set.
PassthroughCall ==
  /\ CallbackEntry \/ PromiseEntry
  /\ ~batch
  /\ requests # <<>>
  /\ requests[1].method \in UnmappedMethods

\* The caller has its answer: its promise has settled, or its callback has
\* been invoked.
CallerAnswered ==
  IF PromiseEntry THEN outer.st \in {"fulfilled", "rejected"} ELSE Len(cbLog) >= 1

\* C4: a request of no mapped set reaches the wallet's sendAsync as it is, and
\* once the wallet has answered and the call has nothing left to do, the caller
\* has the wallet's result or error: its promise settled or its callback
\* invoked.
C4_PassthroughSettles ==
  PassthroughCall =>
    /\ members[1].stage = "passthrough"
    /\ members[1].sent.id = requests[1].id
    /\ members[1].sent.method = requests[1].method
    /\ members[1].sent.params = requests[1].params
    /\ (members[1].answered /\ Quiescent) =>
         /\ CallerAnswered
         /\ members[1].got.how = "resolve" =>
              IF PromiseEntry THEN outer.value = members[1].got.value
              ELSE cbLog[1].resps = <<Response(requests[1].id, members[1].got.value)>>
         /\ members[1].got.how = "reject" =>
              IF PromiseEntry THEN outer.err = members[1].got.err
              ELSE cbLog[1].err = members[1].got.err

\* The send(request) or send(requests) step of a call without a callback.
SendWithoutCallback == entry = "idle" /\ entry' = "send"

\* The requests of the call that the synchronous handler does not know.
Unsupported == {i \in DOMAIN requests : requests[i].method \notin SynchronousMethods}

\* C5: send without a callback, given a request whose method is none of
\* eth_accounts, net_version and eth_chainId, throws the error that names the
\* method; given requests one of which is such a request, it throws and returns
\* no array.  The step invokes no collaborator and leaves the cached accounts
\* and chain id as they were.
C5_UnsupportedSync ==
  [][(SendWithoutCallback /\ Unsupported' # {}) =>
       /\ outer'.st = "threw"
       /\ outer'.resps = <<>>
       /\ \E i \in DOMAIN requests' :
            outer'.err = UnsupportedSyncErr(requests'[i].method)
       /\ ~batch' => outer'.err = UnsupportedSyncErr(requests'[1].method)
       /\ invocations' = NoInvocations
       /\ members' = <<>>
       /\ _addresses' = _addresses
       /\ chainId' = chainId]_vars

\* send(requests) given a synchronous request followed by an unsupported one
\* has thrown.
C5_Witness ==
  /\ entry = "send" /\ batch
  /\ Len(requests) = 2
  /\ requests[1].method = "eth_accounts"
  /\ requests[2].method = "eth_sendTransaction"
  /\ outer.st = "threw"

\* C6: for eth_accounts, net_version and eth_chainId, in every state of the
\* provider, send(request) returns a response with the request's id and a
\* defined result, and the asynchronous pipeline resolves the request from the
\* cached state, invoking no collaborator.
C6_SynchronousAnswer ==
  \A i \in DOMAIN requests :
    requests[i].method \in SynchronousMethods =>
      /\ (entry = "send" /\ ~batch) =>
           /\ outer.st = "returned"
           /\ outer.resps[1].id = requests[1].id
           /\ outer.resps[1].result # JsUndefined
      /\ (CallbackEntry \/ PromiseEntry) =>
           /\ members[i].stage = "sync"
           /\ members[i].st = "fulfilled"
           /\ members[i].collab = "none"

TransactionMethods == {"eth_sendTransaction", "eth_signTransaction"}

\* C7: when the chain-client call of eth_sendTransaction or eth_signTransaction
\* fails, the caller receives the user-rejected error if the failure's message
\* holds "denied" or "rejected" in any letter case, and the failure itself
\* otherwise; the chain client is invoked once.
C7_TransactionFailure ==
  \A i \in DOMAIN members :
    (members[i].req.method \in TransactionMethods /\ members[i].got.how = "reject") =>
      /\ members[i].st = "rejected"
      /\ members[i].err =
           IF members[i].got.err.hasMsg /\ MatchesDeniedOrRejected(members[i].got.err.msg)
             THEN UserRejectedErr
             ELSE members[i].got.err
      /\ invocations.caver = Cardinality({j \in DOMAIN members :
                                           members[j].req.method \in CaverMethods})

\* The invalid-params error wallet_watchAsset owes an asset description: the
\* first of type, supported type, options and address that is missing; NoErr
\* when none is.  No description at all has no type.
WatchAssetViolation(params) ==
  IF params.shape \in {"none", "array0"} \/ params.type = ""
    THEN InvalidParamsErr(<<"Type is required">>)
  ELSE IF params.type # "ERC20"
    THEN InvalidParamsErr(<<"Asset of type '", params.type, "' is not supported">>)
  ELSE IF params.options = "none" THEN InvalidParamsErr(<<"Options are required">>)
  ELSE IF params.options = "noaddr" THEN InvalidParamsErr(<<"Address is required">>)
  ELSE NoErr

\* C8: a wallet_watchAsset request whose type is missing or is not ERC20, or
\* whose options or options.address is missing, fails with the invalid-params
\* error that names the field, whatever its params, and the wallet's sendAsync
\* is not invoked for it.
C8_WatchAssetInvalid ==
  \A i \in DOMAIN members :
    (/\ members[i].req.method = "wallet_watchAsset"
     /\ WatchAssetViolation(members[i].req.params) # NoErr) =>
      /\ members[i].collab = "none"
      /\ members[i].sent = NothingSent
      /\ members[i].st # "fulfilled"
      /\ members[i].err = WatchAssetViolation(members[i].req.params)

\* The members of the batch that have failed, and the first of them to.
Failed == {i \in DOMAIN members : members[i].st = "rejected"}

FirstFailed ==
  LET k == CHOOSE k \in DOMAIN settleOrder :
             /\ settleOrder[k] \in Failed
             /\ \A j \in 1..(k - 1) : settleOrder[j] \notin Failed
  IN settleOrder[k]

\* C9: the callback of sendAsync(requests, callback) is invoked once.  While no
\* member has failed it is invoked only when every member has settled, with
\* null and the responses of all; once a member has failed it is invoked with
\* the error of the first member to fail and null, without waiting for the
\* others, whose completion invokes it no more.
C9_BatchCallback ==
  (CallbackEntry /\ batch) =>
    /\ Len(cbLog) <= 1
    /\ \A k \in DOMAIN cbLog :
         IF Failed = {}
           THEN /\ \A i \in DOMAIN members : members[i].st = "fulfilled"
                /\ cbLog[k].err = NoErr /\ ~cbLog[k].isNull
                /\ cbLog[k].resps = [i \in DOMAIN members |-> members[i].resp]
           ELSE /\ cbLog[k].err = members[FirstFailed].err
                /\ cbLog[k].isNull
    /\ (Failed # {} /\ chain \notin {"wait", "catch"}) => Len(cbLog) = 1

\* A step that starts a dispatch call.
CallStarts == entry = "idle" /\ entry' # "idle"

\* A step of enable() up to its await: it returned the cached list, or invoked
\* the wallet's enable().
EnableCalled ==
  \/ nWalletEnable' # nWalletEnable
  \/ lastEnable' # lastEnable /\ lastEnable'.did = "cached"

\* C10: eth_accounts returns an empty sequence while no account is cached; once
\* enable() has resolved with a non-empty list L, every later eth_accounts
\* request returns L, and every later enable() call returns L and does not
\* invoke the wallet's enable().
C10_AccountsIdempotent ==
  [][/\ CallStarts =>
          \A i \in DOMAIN requests' :
            (/\ requests'[i].method = "eth_accounts"
             /\ outer'.st # "threw"
             /\ entry' # "sendAsyncNoCallback") =>
              LET result == IF entry' = "send" THEN outer'.resps[i].result
                                               ELSE members'[i].resp.result
              IN /\ _addresses = <<>> => result = JsArray(<<>>)
                 /\ \A L \in resolvedLists : result = JsArray(L)
     /\ EnableCalled =>
          \A L \in resolvedLists :
            /\ lastEnable' = [did |-> "cached", ret |-> L]
            /\ nWalletEnable' = nWalletEnable]_vars

\* C11: sendAsync given no function as its callback throws 'callback is
\* required' to its caller during the call, invoking no handler stage and no
\* collaborator.
C11_CallbackRequired ==
  entry = "sendAsyncNoCallback" =>
    /\ outer.st = "threw"
    /\ outer.err = CallbackRequiredErr
    /\ members = <<>>
    /\ invocations = NoInvocations

\* An argument request(args) is to refuse: no non-array object; a method that
\* is missing, empty or no string; params that is present and is neither an
\* array nor a non-null object.
Malformed(a) ==
  \/ a.kind # "object"
  \/ a.methodType # "string"
  \/ a.method = ""
  \/ a.params.shape \notin {"none", "array0", "array", "object"}

\* C12: request(args) given a malformed argument fails with the
\* invalid-request error; from then on no handler stage and no collaborator is
\* invoked for the call, and the cached accounts and chain id stay as they were.
C12_InvalidRequest ==
  [][(entry' = "request" /\ Malformed(args')) =>
       /\ outer'.st = "rejected"
       /\ outer'.err.kind = "invalidRequest"
       /\ requests' = <<>>
       /\ members' = <<>>
       /\ invocations' = NoInvocations
       /\ _addresses' = _addresses
       /\ chainId' = chainId]_vars

\* request(args) was given an object whose params is null, and has failed.
C12_Witness ==
  /\ entry = "request"
  /\ args.kind = "object" /\ args.methodType = "string" /\ args.method # ""
  /\ args.params.shape = "null"
  /\ outer.st = "rejected"

\* The requests of the call that go to the subscription manager.
SubscriptionMembers ==
  {i \in DOMAIN members : members[i].req.method \in SubscriptionMethods}

\* C13: an eth_subscribe or eth_unsubscribe request is handed to the
\* subscription manager's handleRequest once and to no other collaborator;
\* when handleRequest resolves, the request's promise is fulfilled with a
\* response of the request's id and the manager's result; when it rejects, or
\* throws on being called, the promise is rejected with that error as it is;
\* and the caller of a single request is given just that.
C13_SubscriptionDelegated ==
  /\ invocations.subscription = Cardinality(SubscriptionMembers)
  /\ \A i \in SubscriptionMembers :
       LET m == members[i]
       IN /\ m.stage = "subscription"
          /\ m.collab = "subscription"
          /\ m.sent = NothingSent
          /\ m.got.how = "resolve" =>
               /\ m.st = "fulfilled"
               /\ m.resp = Response(requests[i].id, m.got.value)
          /\ m.got.how = "reject" => (m.st = "rejected" /\ m.err = m.got.err)
          /\ (m.got = NoAnswer /\ m.answered) =>
               (m.st = "rejected" /\ m.err = ThrownErr)
          /\ (~batch /\ PromiseEntry /\ outer.st = "fulfilled") =>
               outer.value = m.got.value
          /\ (~batch /\ PromiseEntry /\ outer.st = "rejected") => outer.err = m.err
          /\ (~batch /\ CallbackEntry /\ cbLog # <<>>) =>
               IF m.st = "fulfilled"
                 THEN cbLog[1] = Invocation(NoErr, FALSE, <<m.resp>>)
                 ELSE cbLog[1] = Invocation(m.err, TRUE, <<>>)

\* The callback of a single eth_subscribe request was given the manager's
\* result.
C13_Witness ==
  /\ ~batch /\ CallbackEntry
  /\ requests[1].method = "eth_subscribe"
  /\ members[1].got.how = "resolve"
  /\ Len(cbLog) = 1

\* The wallet_watchAsset requests of the call whose asset is an ERC20 token
\* with an address.
WatchedAssets ==
  {i \in DOMAIN members :
     /\ members[i].req.method = "wallet_watchAsset"
     /\ members[i].req.params.shape \in {"array", "object"}
     /\ members[i].req.params.type = "ERC20"
     /\ members[i].req.params.options = "addr"}

\* C14: a wallet_watchAsset request of type ERC20 with an address invokes the
\* wallet's sendAsync once, with the method wallet_watchAsset and a callback,
\* and whenever the result field of the wallet's answer is truthy the result
\* the caller gets is the boolean true.
C14_WatchAssetBoolean ==
  /\ \A i \in WatchedAssets :
       LET m == members[i]
       IN /\ m.collab = "wallet"
          /\ m.sent.method = "wallet_watchAsset"
          /\ m.sent.callback
          /\ (m.got.how = "callback" /\ m.got.hasResult /\ Truthy(m.got.value)) =>
               /\ m.st = "fulfilled"
               /\ m.resp.result = JsBoolean(TRUE)
               /\ (~batch /\ PromiseEntry /\ outer.st # "pending") =>
                    outer = Outer("fulfilled", <<>>, JsBoolean(TRUE), NoErr)
  /\ invocations.wallet =
       Cardinality({i \in DOMAIN members : members[i].collab = "wallet"})

\* request({method: wallet_watchAsset}) for an ERC20 token, answered by the
\* wallet with the number 1 as its result field, has resolved.
C14_Witness ==
  /\ entry = "request"
  /\ WatchedAssets = {1}
  /\ members[1].got.value = JsNumber(1)
  /\ outer.st = "fulfilled"

\* The requests of the call whose wallet callback fired with a failure: an
\* error and no result object, or a result object whose result field is falsy.
NativeFailures ==
  {i \in DOMAIN members :
     /\ members[i].req.method \in WalletMethods
     /\ members[i].got.how = "callback"
     /\ ~members[i].got.hasResult \/ ~Truthy(members[i].got.value)}

\* C15: when the wallet's callback for eth_call or wallet_watchAsset fires with
\* a failure, the request's promise is rejected with the callback's error
\* argument, and the caller of a single request has that error once the call
\* has nothing left to do.
C15_NativeFailure ==
  \A i \in NativeFailures :
    /\ members[i].st = "rejected"
    /\ members[i].err = members[i].got.err
    /\ (~batch /\ Quiescent) =>
         IF PromiseEntry THEN outer.st = "rejected" /\ outer.err = members[i].got.err
         ELSE cbLog # <<>> /\ cbLog[1] = Invocation(members[i].got.err, TRUE, <<>>)

\* C16: the wallet's enable() is invoked at most once in a session, and the
\* cached account list, once an enable() has written it, does not change
\* again, whatever the order enable() calls start and resolve in.
C16_PopulatedOnce ==
  [][/\ nWalletEnable' <= 1
     /\ (nWalletEnable - enablePending > 0) => _addresses' = _addresses]_vars

\* C17: the cached account list is changed by no step but the resolution of
\* an enable() call, and the chainId field by no step at all: not by a
\* dispatch call of any entry point, whatever its outcome, not by a re-emitted
\* wallet event, and not by a subscription notification.
C17_CachedStateFrame ==
  [][/\ enablePending' >= enablePending => _addresses' = _addresses
     /\ chainId' = chainId]_vars

\* After a network change, a notification and an enable(), a request(args)
\* call has failed and the cached list and chain id are as they were.
C17_Witness ==
  /\ networkVersion # chainId
  /\ lastEmit.name = "message"
  /\ _addresses # <<>>
  /\ entry = "request" /\ outer.st = "rejected" /\ members # <<>>

\* The event a step re-emits: the one the wallet or the subscription manager
\* raised in that step.
Reemitted ==
  IF notification' # notification
    THEN [name |-> "message", payload |-> MessageOf(notification')]
  ELSE IF walletAccounts' # walletAccounts
    THEN [name |-> "accountsChanged", payload |-> JsArray(walletAccounts')]
  ELSE [name |-> "networkChanged", payload |-> networkVersion']

EventOccurs ==
  \/ notification' # notification
  \/ walletAccounts' # walletAccounts
  \/ networkVersion' # networkVersion

\* C18: a notification of the subscription manager is re-emitted in the same
\* step as one 'message' event {type: method, data: params}, and an
\* accountsChanged or networkChanged event of the wallet as one event of the
\* same name and payload; the event reaches the listener registered at that
\* moment once, and nobody when none is registered; no other step emits or
\* delivers anything, so a listener registered later is given nothing of it.
C18_Reemit ==
  [][IF EventOccurs
       THEN /\ lastEmit' = Reemitted
            /\ delivered' = IF listening THEN <<Reemitted>> ELSE <<>>
            /\ listening' = listening
       ELSE /\ lastEmit' = lastEmit
            /\ delivered' = delivered]_vars

\* A notification came while no listener was registered, and a listener was
\* registered afterwards.
C18_Witness ==
  /\ lastEmit = [name |-> "message", payload |-> MessageOf(notification)]
  /\ delivered = <<>>
  /\ listening

\* The results the requests of a call got in the step that started it.
StartedResults(i) ==
  IF entry' = "send"
    THEN IF outer'.st = "returned" THEN {outer'.resps[i].result} ELSE {}
  ELSE IF i \in DOMAIN members' /\ members'[i].st = "fulfilled"
    THEN {members'[i].resp.result}
  ELSE {}

\* C19: the chainId field keeps the value the constructor read, whatever the
\* wallet's network id becomes; an eth_chainId request is answered with the
\* wallet's network id of that moment; and in every state the result of
\* net_version is the base-10 parse of what eth_chainId returns in that state.
C19_ChainId ==
  [][/\ chainId' = chainId
     /\ _eth_chainId = networkVersion
     /\ _net_version = ParseInt10(_eth_chainId)
     /\ CallStarts =>
          \A i \in DOMAIN requests' :
            /\ (requests'[i].method = "eth_chainId" /\ networkVersion # JsUndefined) =>
                 /\ \A v \in StartedResults(i) : v = networkVersion
                 /\ entry' \notin {"send", "sendAsyncNoCallback"} =>
                      StartedResults(i) # {}
            /\ requests'[i].method = "net_version" =>
                 /\ \A v \in StartedResults(i) : v = ParseInt10(_eth_chainId)
                 /\ entry' \notin {"send", "sendAsyncNoCallback"} =>
                      StartedResults(i) # {}]_vars

\* send({method: eth_chainId}) returned the wallet's network id, which is not
\* the one the constructor read.
C19_Witness ==
  /\ chainId # networkVersion
  /\ chainId # JsUndefined
  /\ entry = "send" /\ ~batch
  /\ requests[1].method = "eth_chainId"
  /\ outer.st = "returned"
  /\ outer.resps[1].result = networkVersion

\* The members of the call for which a collaborator was invoked.
Invoked == {i \in DOMAIN members : members[i].collab # "none"}

\* C20: a request in the asynchronous pipeline is taken by one stage, the
\* first in the order synchronous handler, subscription router, mapped
\* handler, wallet passthrough that accepts it; a request the synchronous
\* handler answered is resolved there and goes to no collaborator; the
\* collaborator invocations of a call are at most one per request.
C20_OneStage ==
  /\ \A i \in DOMAIN members :
       LET m == members[i]
           r == requests[i]
           answered == _handleSynchronousMethods(r) # JsUndefined
       IN /\ m.stage = "sync" <=> answered
          /\ answered => (m.collab = "none" /\ m.sent = NothingSent /\ m.st = "fulfilled")
          /\ m.stage = "subscription" <=> (~answered /\ r.method \in SubscriptionMethods)
          /\ m.stage = "subscription" =>
               (m.collab = "subscription" /\ m.sent = NothingSent)
          /\ m.stage = "mapped" <=> r.method \in CaverMethods \cup WalletMethods
          /\ r.method \in CaverMethods => (m.collab = "caver" /\ m.sent = NothingSent)
          /\ r.method \in WalletMethods => m.collab \in {"wallet", "none"}
          /\ m.stage = "passthrough" <=>
               (~answered /\ r.method \notin SubscriptionMethods \cup CaverMethods
                                               \cup WalletMethods)
          /\ m.stage = "passthrough" => m.collab = "wallet"
          /\ m.collab = "wallet" <=> m.sent # NothingSent
  /\ invocations.wallet + invocations.caver + invocations.subscription
       = Cardinality(Invoked)
  /\ Cardinality(Invoked) <= Len(members)
  /\ (entry # "idle" /\ members # <<>>) => Len(members) = Len(requests)

\* A batch of a request the synchronous handler answers and one for the chain
\* client has settled with one collaborator invocation.
C20_Witness ==
  /\ batch /\ Len(members) = 2
  /\ members[1].stage = "sync"
  /\ members[2].stage = "mapped" /\ members[2].got # NoAnswer
  /\ invocations = [wallet |-> 0, caver |-> 1, subscription |-> 0]
====
